---- MODULE Spec2Model ----
(***************************************************************************)
(* A model of app.py (splice-ai-server): the event scrapers, the date      *)
(* helpers, the de-duplication, the in-memory CACHE with its 6 hour TTL,   *)
(* the selection helpers and the Flask handlers that read the cache.       *)
(*                                                                         *)
(* Time is counted in seconds since 1970-01-01T00:00:00.  time.time() and  *)
(* datetime.now() are both read from the one variable clock.               *)
(***************************************************************************)
EXTENDS Integers, Sequences, FiniteSets, TLC

VARIABLES
    CACHE,      \* the module-level dict: ts, events, errors
    wrote,      \* history: which refresh stored each field of CACHE, and its now_dt
    clock,      \* the wall clock
    pc,         \* per worker thread: where its handler stands
    req,        \* per worker thread: the request it serves and what it has read
    frame,      \* per worker thread: the locals of refresh_cache_if_needed
    nreq,       \* number of requests accepted so far
    nrefresh,   \* number of refreshes that passed the freshness test so far
    limits,     \* the deployment: its worker threads, and how far a run is followed
    fn,         \* the function exercised by the function-level specifications
    arg,        \* its input
    res         \* its result

vars == <<CACHE, wrote, clock, pc, req, frame, nreq, nrefresh, limits, fn, arg, res>>


-----------------------------------------------------------------------------
(* Bounds of the model *)

MaxRequests == 3
MaxTicks == 2
ThreadedRequests == 2
ThreadedTicks == 1
MaxLen == 3

Threads == {"t1", "t2"}

-----------------------------------------------------------------------------
(* Module constants *)

EL_NAME == "El"

CACHE_TTL_SECONDS == 6 * 60 * 60

SOURCES ==
    << [name |-> "The Adelphia", category |-> "music",
        urls |-> << "https://www.theadelphia.com/events/" >>],
       [name |-> "Greater Parkersburg", category |-> "community",
        urls |-> << "https://www.greaterparkersburg.com/events/" >>],
       [name |-> "Parkersburg Art Center", category |-> "arts",
        urls |-> << "http://parkersburgartcenter.org/exhibits",
                    "https://www.parkersburgartcenter.org/upcomingcurrent-events",
                    "https://www.parkersburgartcenter.org/adult-and-teen-classes",
                    "https://www.parkersburgartcenter.org/children-and-family-classes",
                    "https://www.parkersburgartcenter.org/camp-creativity" >>] >>

\* the CACHE literal
CacheInit == [ts |-> 0, events |-> << >>, errors |-> << >>]

-----------------------------------------------------------------------------
(* Sequence helpers *)

Range(s) == {s[i] : i \in 1..Len(s)}

RECURSIVE Flatten(_)
Flatten(ss) == IF ss = << >> THEN << >> ELSE Head(ss) \o Flatten(Tail(ss))

\* Python slice s[:n]
Take(s, n) == SubSeq(s, 1, IF Len(s) < n THEN Len(s) ELSE n)

RECURSIVE SelectSeqIdx(_, _)
\* indices (ascending) of the elements of s that are TRUE
SelectSeqIdx(s, i) ==
    IF i > Len(s) THEN << >>
    ELSE (IF s[i] THEN <<i>> ELSE << >>) \o SelectSeqIdx(s, i + 1)

-----------------------------------------------------------------------------
(* datetime: the proleptic Gregorian calendar, naive and aware values.     *)
(* A datetime is [k, t, off]: k = "naive" with t the wall-clock seconds,   *)
(* or k = "aware" with t the wall-clock seconds and off the UTC offset.    *)

IsLeap(y) == (y % 4 = 0 /\ y % 100 # 0) \/ y % 400 = 0

DaysInMonth(y, m) ==
    IF m = 2 THEN (IF IsLeap(y) THEN 29 ELSE 28)
    ELSE IF m \in {4, 6, 9, 11} THEN 30 ELSE 31

DaysInYear(y) == IF IsLeap(y) THEN 366 ELSE 365

RECURSIVE DaysBeforeYear(_)
DaysBeforeYear(y) == IF y <= 1970 THEN 0 ELSE DaysBeforeYear(y - 1) + DaysInYear(y - 1)

RECURSIVE DaysBeforeMonth(_, _)
DaysBeforeMonth(y, m) == IF m <= 1 THEN 0 ELSE DaysBeforeMonth(y, m - 1) + DaysInMonth(y, m - 1)

\* datetime(y, mo, d, h, mi, s) as seconds
ToSeconds(f) ==
    (DaysBeforeYear(f.y) + DaysBeforeMonth(f.y, f.mo) + (f.d - 1)) * 86400
        + f.h * 3600 + f.mi * 60 + f.s

YearOf(t) ==
    CHOOSE y \in 1970..1980 :
        /\ DaysBeforeYear(y) <= t \div 86400
        /\ t \div 86400 < DaysBeforeYear(y + 1)

\* the day of year y, counted from 0, that the instant t lies in
DayOfYear(y, t) == (t \div 86400) - DaysBeforeYear(y)

MonthAt(y, doy) ==
    CHOOSE m \in 1..12 :
        /\ DaysBeforeMonth(y, m) <= doy
        /\ doy < DaysBeforeMonth(y, m) + DaysInMonth(y, m)

FieldsAt(y, m, doy, sod) ==
    [y |-> y, mo |-> m, d |-> doy - DaysBeforeMonth(y, m) + 1,
     h |-> sod \div 3600, mi |-> (sod % 3600) \div 60, s |-> sod % 60]

FieldsIn(y, doy, sod) == FieldsAt(y, MonthAt(y, doy), doy, sod)

\* the fields of a datetime
FromSeconds(t) == FieldsIn(YearOf(t), DayOfYear(YearOf(t), t), t % 86400)

\* datetime.weekday(): Mon = 0 ... Sun = 6 (1970-01-01 was a Thursday)
Weekday(t) == ((t \div 86400) + 3) % 7

\* dt.replace(hour, minute, second, microsecond=0)
ReplaceTime(t, h, mi, s) == (t \div 86400) * 86400 + h * 3600 + mi * 60 + s

Naive(t) == [k |-> "naive", t |-> t, off |-> 0]
Aware(t, off) == [k |-> "aware", t |-> t, off |-> off]
NoneDt == [k |-> "none", t |-> 0, off |-> 0]

\* a <= b on datetimes: Python raises TypeError when one is naive and the other aware
DtComparable(a, b) == a.k = b.k
DtLeq(a, b) == IF a.k = "aware" THEN a.t - a.off <= b.t - b.off ELSE a.t <= b.t

\* Date strings.  [k, t, off, y, mo, d]:
\*   "iso"     a full naive ISO-8601 text of the instant t
\*   "isotz"   a full ISO-8601 text with the UTC offset off
\*   "partial" a text naming only a date, fields y, mo, d (0 = not in the text)
\*   "junk"    a text that looks date-like but that no parser accepts
\*   "plain"   a text with nothing date-like in it
\*   "empty"   the empty (or all-blank) string
\*   "null"    Python's None
Text(k, t, off, y, mo, d) == [k |-> k, t |-> t, off |-> off, y |-> y, mo |-> mo, d |-> d]
IsoText(t) == Text("iso", t, 0, 0, 0, 0)
IsoTzText(t, off) == Text("isotz", t, off, 0, 0, 0)
PartialText(y, mo, d) == Text("partial", 0, 0, y, mo, d)
JunkText == Text("junk", 0, 0, 0, 0, 0)
PlainText == Text("plain", 0, 0, 0, 0, 0)
EmptyText == Text("empty", 0, 0, 0, 0, 0)
NullText == Text("null", 0, 0, 0, 0, 0)

\* datetime.isoformat()
isoformat(dt) == IF dt.k = "aware" THEN IsoTzText(dt.t, dt.off) ELSE IsoText(dt.t)

\* what dateutil builds from a text naming only a date: the fields the text
\* lacks come from default (fields f); a day the text does not name is clamped
\* to the month's end, a day it names must exist
BuildDay(f, y, m, d) ==
    IF d > DaysInMonth(y, m)
    THEN [ok |-> FALSE, dt |-> NoneDt]
    ELSE [ok |-> TRUE,
          dt |-> Naive(ToSeconds([y |-> y, mo |-> m, d |-> d,
                                  h |-> f.h, mi |-> f.mi, s |-> f.s]))]

ClampDay(d, last) == IF d > last THEN last ELSE d

BuildMonth(text, f, y, m) ==
    BuildDay(f, y, m, IF text.d = 0 THEN ClampDay(f.d, DaysInMonth(y, m)) ELSE text.d)

BuildFields(text, f) ==
    BuildMonth(text, f, IF text.y = 0 THEN f.y ELSE text.y,
                        IF text.mo = 0 THEN f.mo ELSE text.mo)

BuildNaive(text, default) == BuildFields(text, FromSeconds(default))

\* dateutil.parser.parse(text, default=default): [ok, dt]; ok = FALSE stands for
\* the exception it raises
dtparser_parse(text, default) ==
    CASE text.k = "iso" -> [ok |-> TRUE, dt |-> Naive(text.t)]
      [] text.k = "isotz" -> [ok |-> TRUE, dt |-> Aware(text.t, text.off)]
      [] text.k = "partial" -> BuildNaive(text, default)
      [] OTHER -> [ok |-> FALSE, dt |-> NoneDt]

\* the default dateutil uses when none is given: today at 00:00:00
Midnight(now) == ReplaceTime(now, 0, 0, 0)

\* truthiness of a str-or-None value
Truthy(text) == text.k \notin {"empty", "null"}

\* MONTH_RE, DATEISH_RE or a 4-digit number is found in the text
LooksDateLike(text) == text.k \in {"iso", "isotz", "partial", "junk"}

\* safe_parse_date(text), with now_local() = now
safe_parse_date(text, now) ==
    IF ~Truthy(text) THEN NoneDt
    ELSE IF ~LooksDateLike(text) THEN NoneDt
    ELSE LET r == dtparser_parse(text, now) IN IF r.ok THEN r.dt ELSE NoneDt

\* weekend_range(base): <<sat, sun>>
weekend_range(base) ==
    LET days_until_sat == (5 - Weekday(base)) % 7
        sat == ReplaceTime(base + days_until_sat * 86400, 0, 0, 0)
        sun == ReplaceTime(sat + 86400, 23, 59, 59)
    IN  <<sat, sun>>

-----------------------------------------------------------------------------
(* Events *)

\* str.strip() on the titles the model uses
Strip(s) == IF s = " " THEN "" ELSE s

\* str(x) of an Optional[str] holding a date text, as the f-string prints it
Str(text) == ToString(<<text.k, text.t, text.off, text.y, text.mo, text.d>>)

\* event_key(e)
event_key(e) == e.source \o "|" \o e.title \o "|" \o Str(e.start) \o "|" \o e.url

\* normalize_event(title, start, url, source, category, raw_date_text)
normalize_event(title, start, url, source, category, raw_date_text) ==
    [title |-> Strip(title),
     start |-> IF start.k # "none" THEN isoformat(start) ELSE NullText,
     date_text |-> raw_date_text,
     url |-> url,
     source |-> source,
     category |-> category]

\* a de-duplication that keeps the first event of each key
dedupe_FirstWins(events) ==
    LET firstIdx == SelectSeqIdx(
            [i \in 1..Len(events) |->
                \A j \in 1..(i - 1) : event_key(events[j]) # event_key(events[i])], 1)
    IN  [n \in 1..Len(firstIdx) |-> events[firstIdx[n]]]

\* uniq = {}; for e in events: uniq[event_key(e)] = e; list(uniq.values())
\* A dict keeps a key at the position of its first insertion and the value of
\* its last assignment.
dedupe(events) ==
    LET firstIdx == SelectSeqIdx(
            [i \in 1..Len(events) |->
                \A j \in 1..(i - 1) : event_key(events[j]) # event_key(events[i])], 1)
        lastOf(i) == CHOOSE j \in i..Len(events) :
            /\ event_key(events[j]) = event_key(events[i])
            /\ \A l \in (j + 1)..Len(events) : event_key(events[l]) # event_key(events[i])
    IN  [n \in 1..Len(firstIdx) |-> events[lastOf(firstIdx[n])]]

-----------------------------------------------------------------------------
(* Scraping helpers.  A fetched page is [scripts, blocks]:                  *)
(*  scripts: the <script type="application/ld+json"> elements, each         *)
(*           [shape, nodes] with shape "blank" (no text), "invalid" (not    *)
(*           JSON), "list", "graph" (a dict with an @graph list), "object"  *)
(*           (any other dict, nodes = <<it>>) or "scalar";                  *)
(*  blocks:  the article/li/div/section elements, each [a, title, href,     *)
(*           text]: a = it holds an <a href>, title = the anchor's text,    *)
(*           href = [form, s], text = the block's text.                     *)

\* str.lower() on the type names the model uses
Lower(s) == IF s \in {"Event", "EVENT", "event"} THEN "event" ELSE s

\* the nodes of one parsed JSON-LD document
NodesOf(script) ==
    IF script.shape \in {"list", "graph", "object"} THEN script.nodes ELSE << >>

\* the Event-typed test on one node
IsEventNode(node) ==
    /\ node.dict
    /\ LET t == IF node.atType # << >> THEN node.atType ELSE node.type
       IN  \E i \in 1..Len(t) : Lower(t[i]) = "event"

\* the events one node contributes (none or one)
NodeEvents(node, source, category, now) ==
    IF ~IsEventNode(node) THEN << >>
    ELSE LET title == node.name
             start_raw == IF Truthy(node.startDate) THEN node.startDate ELSE EmptyText
             url == node.url
             p == dtparser_parse(start_raw, Midnight(now))
             start_dt == IF Truthy(start_raw) /\ p.ok THEN p.dt ELSE NoneDt
         IN  IF title # "" /\ url # ""
             THEN << normalize_event(title, start_dt, url, source, category, start_raw) >>
             ELSE << >>

\* parse_jsonld_events(html, source, category), with today's date read from now
parse_jsonld_events(html, source, category, now) ==
    Flatten([s \in 1..Len(html.scripts) |->
        LET nodes == NodesOf(html.scripts[s])
        IN  Flatten([n \in 1..Len(nodes) |-> NodeEvents(nodes[n], source, category, now)])])

\* the absolute url of an href
AbsoluteUrl(href, base_url) ==
    CASE href.form = "root" -> base_url \o href.s
      [] href.form = "abs" -> href.s
      [] OTHER -> base_url \o "/" \o href.s

BlockEvents(block, base_url, source, category, now) ==
    IF ~block.a THEN << >>
    ELSE IF block.title = "" \/ Len(block.title) < 4 THEN << >>
    ELSE LET url == AbsoluteUrl(block.href, base_url)
             start_dt == safe_parse_date(block.text, now)
         IN  IF start_dt.k = "none" THEN << >>
             ELSE << normalize_event(block.title, start_dt, url, source, category, block.text) >>

\* parse_basic_event_links(html, base_url, source, category)
parse_basic_event_links(html, base_url, source, category, now) ==
    dedupe(Flatten([b \in 1..Len(html.blocks) |->
        BlockEvents(html.blocks[b], base_url, source, category, now)]))

\* re.match(r"^(https?://[^/]+)", url) on the configured urls
BaseUrl(url) ==
    CASE url = "https://www.theadelphia.com/events/" -> "https://www.theadelphia.com"
      [] url = "https://www.greaterparkersburg.com/events/" -> "https://www.greaterparkersburg.com"
      [] url = "http://parkersburgartcenter.org/exhibits" -> "http://parkersburgartcenter.org"
      [] OTHER -> "https://www.parkersburgartcenter.org"

\* one pass of the loop over source_cfg["urls"]: fetch[j] is what fetch_html does
\* for the j-th url, [ok, html, msg]
UrlResult(source_cfg, j, fetch, now) ==
    LET url == source_cfg.urls[j]
    IN  IF ~fetch[j].ok
        THEN [events |-> << >>,
              errors |-> << source_cfg.name \o " (" \o url \o "): " \o fetch[j].msg >>]
        ELSE LET got == parse_jsonld_events(fetch[j].html, source_cfg.name,
                                            source_cfg.category, now)
             IN  [events |-> IF got # << >> THEN got
                             ELSE parse_basic_event_links(fetch[j].html, BaseUrl(url),
                                      source_cfg.name, source_cfg.category, now),
                  errors |-> << >>]

\* scrape_source with the try around the loop: the first failing fetch ends it
scrape_source_StopAtFirstError(source_cfg, fetch, now) ==
    LET failed == {j \in 1..Len(source_cfg.urls) : ~fetch[j].ok}
        last == IF failed = {} THEN Len(source_cfg.urls)
                ELSE CHOOSE j \in failed : \A l \in failed : j <= l
        per == [j \in 1..last |-> UrlResult(source_cfg, j, fetch, now)]
    IN  [events |-> dedupe(Flatten([j \in 1..Len(per) |-> per[j].events])),
         errors |-> Flatten([j \in 1..Len(per) |-> per[j].errors])]

\* scrape_source(source_cfg): [events, errors]
scrape_source(source_cfg, fetch, now) ==
    LET per == [j \in 1..Len(source_cfg.urls) |-> UrlResult(source_cfg, j, fetch, now)]
    IN  [events |-> dedupe(Flatten([j \in 1..Len(per) |-> per[j].events])),
         errors |-> Flatten([j \in 1..Len(per) |-> per[j].errors])]

-----------------------------------------------------------------------------
(* Cache + selection logic *)

\* the age test with the boundary off by one: an age of exactly the TTL is fresh
AgeFresh_Le(force, now_ts, ts) == ~force /\ (now_ts - ts <= CACHE_TTL_SECONDS)

\* the freshness test of refresh_cache_if_needed, evaluated left to right: the
\* force flag and the age of CACHE["ts"]; the truthiness of CACHE["events"] is
\* tested after it, in CheckEvents
AgeFresh(force, now_ts, ts) == ~force /\ (now_ts - ts < CACHE_TTL_SECONDS)

\* the loop that keeps the upcoming-ish events: [raised, events].  raised = the
\* comparison of an aware start with the naive now_dt raised TypeError.
KeepsUpcoming(e, now_dt) ==
    /\ Truthy(e.start)
    /\ dtparser_parse(e.start, Midnight(now_dt)).ok
    /\ DtLeq(Naive(now_dt - 6 * 3600), dtparser_parse(e.start, Midnight(now_dt)).dt)

ComparisonRaises(e, bound) ==
    /\ Truthy(e.start)
    /\ dtparser_parse(e.start, Midnight(bound.t)).ok
    /\ ~DtComparable(dtparser_parse(e.start, Midnight(bound.t)).dt, bound)

\* the loop without the comparison with now_dt - 6 hours
Upcoming_NoGrace(all_events, now_dt) ==
    [raised |-> \E i \in 1..Len(all_events) : ComparisonRaises(all_events[i], Naive(now_dt)),
     events |-> SelectSeq(all_events, LAMBDA e :
                    Truthy(e.start) /\ dtparser_parse(e.start, Midnight(now_dt)).ok)]

Upcoming(all_events, now_dt) ==
    [raised |-> \E i \in 1..Len(all_events) : ComparisonRaises(all_events[i], Naive(now_dt)),
     events |-> SelectSeq(all_events, LAMBDA e : KeepsUpcoming(e, now_dt))]

\* the sort key x.get("start") or "": ISO texts of naive datetimes order as their
\* instants do; the empty string sorts first
KeyLeq(a, b) ==
    IF ~Truthy(a.start) THEN TRUE
    ELSE IF ~Truthy(b.start) THEN FALSE
    ELSE a.start.t <= b.start.t

RECURSIVE InsertSorted(_, _)
InsertSorted(sorted, e) ==
    IF sorted = << >> THEN <<e>>
    ELSE IF KeyLeq(sorted[Len(sorted)], e) THEN Append(sorted, e)
    ELSE Append(InsertSorted(SubSeq(sorted, 1, Len(sorted) - 1), e), sorted[Len(sorted)])

RECURSIVE SortByStart(_)
\* list.sort(key=...): stable
SortByStart(events) ==
    IF events = << >> THEN << >>
    ELSE InsertSorted(SortByStart(SubSeq(events, 1, Len(events) - 1)), events[Len(events)])

\* the events of a list whose start lies in [lo, hi]: [raised, events]
Between(events, lo, hi) ==
    [raised |-> \E i \in 1..Len(events) : ComparisonRaises(events[i], Naive(lo)),
     events |-> SelectSeq(events, LAMBDA e :
                    /\ dtparser_parse(e.start, Midnight(lo)).ok
                    /\ DtLeq(Naive(lo), dtparser_parse(e.start, Midnight(lo)).dt)
                    /\ DtLeq(dtparser_parse(e.start, Midnight(lo)).dt, Naive(hi)))]

\* select_today(events, base)
select_today(events, base) ==
    LET r == Between(events, ReplaceTime(base, 0, 0, 0), ReplaceTime(base, 23, 59, 59))
    IN  [raised |-> r.raised, events |-> Take(r.events, 6)]

\* select_weekend(events, base)
select_weekend(events, base) ==
    LET w == weekend_range(base)
        r == Between(events, w[1], w[2])
    IN  [raised |-> r.raised, events |-> Take(r.events, 8)]

\* dt.strftime("%a %b %-d, %-I:%M %p")
strftime(dt) ==
    LET f == FromSeconds(dt.t)
    IN  ToString(<<Weekday(dt.t), f.mo, f.d,
                   IF f.h % 12 = 0 THEN 12 ELSE f.h % 12, f.mi,
                   IF f.h < 12 THEN "AM" ELSE "PM">>)

\* format_event_line(e)
format_event_line(e) ==
    LET p == dtparser_parse(e.start, 0)
        when == IF Truthy(e.start) /\ p.ok THEN strftime(p.dt) ELSE "TBD"
    IN  "* " \o Strip(e.title) \o " - " \o when \o " (" \o e.source \o ")"

Lines(events) == [i \in 1..Len(events) |-> format_event_line(events[i])]

\* the messages the model sends and the keywords each contains (lower-cased)
Keywords(msg) ==
    CASE msg = "What's on TODAY?" -> {"today"}
      [] msg = "music this weekend" -> {"weekend", "music"}
      [] msg = "art classes" -> {"art", "class"}
      [] msg = "live bands" -> {"band", "live"}
      [] OTHER -> {}

\* answer_query(user_text, events): [raised, message]; the message is the
\* sequence of its lines
answer_query(user_text, events, now) ==
    LET t == Keywords(user_text)
        today == select_today(events, now)
        weekend == select_weekend(events, now)
        art == SelectSeq(events, LAMBDA e : e.source = "Parkersburg Art Center")
        music == SelectSeq(events, LAMBDA e : e.source \in {"The Adelphia"})
    IN  IF "today" \in t THEN
            [raised |-> today.raised,
             message |-> IF today.events = << >>
                         THEN << "I'm not seeing strong today items yet from the sources - want this weekend or music?" >>
                         ELSE << "**Today**" >> \o Lines(today.events)]
        ELSE IF "weekend" \in t THEN
            [raised |-> weekend.raised,
             message |-> IF weekend.events = << >>
                         THEN << "Weekend is quiet in the feed right now - want me to search music or art classes instead?" >>
                         ELSE << "**This Weekend**" >> \o Lines(weekend.events)]
        ELSE IF t \cap {"art", "exhibit", "gallery", "class", "camp"} # {} THEN
            [raised |-> FALSE,
             message |-> IF art # << >>
                         THEN << "**Parkersburg Art Center**" >> \o Lines(Take(art, 10))
                         ELSE << "I'm not pulling Art Center items yet - I'll keep refreshing the feed." >>]
        ELSE IF t \cap {"music", "band", "concert", "live"} # {} THEN
            [raised |-> FALSE,
             message |-> IF music # << >>
                         THEN << "**Live Music / Adelphia**" >> \o Lines(Take(music, 10))
                         ELSE << "I'm not seeing music items yet - I'll keep refreshing." >>]
        ELSE
            [raised |-> FALSE,
             message |-> << "Tell me: **today**, **this weekend**, **music**, **art**, **classes**, **family**, or **date night** - and I'll pull the best matches." >>]

\* welcome_message(events)
welcome_message(events, now) ==
    LET today == select_today(events, now)
        weekend == select_weekend(events, now)
    IN  [raised |-> today.raised \/ weekend.raised,
         message |->
            << "Hi, I'm " \o EL_NAME \o " - your insider for everything happening around the MOV." >>
            \o << "**Today's Highlights**" >>
            \o (IF today.events # << >> THEN Lines(today.events)
                ELSE << "* No solid today hits found yet" >>)
            \o << "**This Weekend**" >>
            \o (IF weekend.events # << >> THEN Lines(weekend.events)
                ELSE << "* Weekend list is still warming up" >>)
            \o << "Tell me what kind of vibe you're looking for" >>]

-----------------------------------------------------------------------------
(* What the network serves.  Every url of a source serves the source's      *)
(* current listing.  During one refresh the network is "up", "down" (every  *)
(* fetch fails) or "partial" (the first url of the last source fails).      *)

LdNode(name, startDate, url) ==
    [dict |-> TRUE, atType |-> << "Event" >>, type |-> << >>,
     name |-> name, startDate |-> startDate, url |-> url]

LdPage(nodes) ==
    [scripts |-> << [shape |-> "graph", nodes |-> nodes] >>, blocks |-> << >>]

LinkPage(title, path, text) ==
    [scripts |-> << >>,
     blocks |-> << [a |-> TRUE, title |-> title,
                    href |-> [form |-> "root", s |-> path], text |-> text] >>]

EmptyPage == [scripts |-> << >>, blocks |-> << >>]

\* the listings source number i may serve
Pages(i) ==
    CASE i = 1 -> { LdPage(<< LdNode("Gig", IsoText(2 * 3600), "https://www.theadelphia.com/e/1"),
                              LdNode("Jam", JunkText, "https://www.theadelphia.com/e/2") >>),
                    LdPage(<< LdNode("Gig", IsoTzText(20 * 3600, 0 - 5 * 3600),
                                     "https://www.theadelphia.com/e/1") >>) }
      [] i = 2 -> { LinkPage("Art Walk", "/walk", PartialText(0, 1, 1)) }
      [] OTHER -> { LdPage(<< LdNode("Class", IsoText(20 * 3600),
                                     "https://www.parkersburgartcenter.org/c") >>) }

NetStates == {"up", "partial", "down"}

\* the url numbers of source i whose fetch fails
Outage(net, i) ==
    CASE net = "down" -> 1..Len(SOURCES[i].urls)
      [] net = "partial" /\ i = Len(SOURCES) -> {1}
      [] OTHER -> {}

\* fetch_html over the urls of source i: [ok, html, msg] per url
Fetch(i, page, down) ==
    [j \in 1..Len(SOURCES[i].urls) |->
        IF j \in down THEN [ok |-> FALSE, html |-> EmptyPage, msg |-> "timed out"]
        ELSE [ok |-> TRUE, html |-> page, msg |-> ""]]

-----------------------------------------------------------------------------
(* The request handlers, one thread per request in flight *)

NoFrame == [rid |-> 0, net |-> "", now_ts |-> 0, i |-> 0, all_events |-> << >>, all_errors |-> << >>,
            now_dt |-> 0, upcoming |-> << >>]

NoReq == [ep |-> "", msg |-> "", step |-> 0, events |-> << >>, errors |-> << >>, ts |-> 0,
          by |-> << >>, status |-> 0, body |-> << >>]

Endpoints == {"/health", "/events", "/chat"}
Messages == {"What's on TODAY?", "music this weekend", ""}

InitCache ==
    /\ CACHE = CacheInit
    /\ wrote = [ts |-> 0, events |-> 0, errors |-> 0, ref |-> 0]
    /\ clock = CACHE_TTL_SECONDS
    /\ pc = [t \in Threads |-> "idle"]
    /\ req = [t \in Threads |-> NoReq]
    /\ frame = [t \in Threads |-> NoFrame]
    /\ nreq = 0
    /\ nrefresh = 0

\* one synchronous worker: a request is served to its end before the next
Init ==
    /\ InitCache
    /\ limits = [threads |-> {"t1"}, requests |-> MaxRequests, ticks |-> MaxTicks]
    /\ fn = "none" /\ arg = << >> /\ res = << >>

\* the threaded server of app.run(): one thread per request in flight
InitThreaded ==
    /\ InitCache
    /\ limits = [threads |-> Threads, requests |-> ThreadedRequests, ticks |-> ThreadedTicks]
    /\ fn = "none" /\ arg = << >> /\ res = << >>

\* a request arrives and a worker thread starts its handler
Request(t) ==
    /\ pc[t] = "idle"
    /\ t \in limits.threads
    /\ nreq < limits.requests
    /\ \E ep \in Endpoints : \E msg \in (IF ep = "/chat" THEN Messages ELSE {""}) :
          req' = [req EXCEPT ![t] = [NoReq EXCEPT !.ep = ep, !.msg = msg]]
    /\ pc' = [pc EXCEPT ![t] = "enter"]
    /\ nreq' = nreq + 1
    /\ UNCHANGED <<CACHE, wrote, clock, frame, nrefresh, limits, fn, arg, res>>

\* the locals of a refresh that goes on to scrape
StartRefresh(t, now_ts) ==
    /\ \E net \in NetStates :
          frame' = [frame EXCEPT ![t] = [NoFrame EXCEPT !.rid = nrefresh + 1, !.net = net,
                                                        !.now_ts = now_ts, !.i = 1]]
    /\ nrefresh' = nrefresh + 1
    /\ pc' = [pc EXCEPT ![t] = "scrape"]

\* refresh_cache_if_needed(force=False): now_ts = time.time() and the age test
\* on CACHE["ts"]
Enter(t) ==
    /\ pc[t] = "enter"
    /\ IF AgeFresh(FALSE, clock, CACHE.ts)
       THEN /\ pc' = [pc EXCEPT ![t] = "chk_events"]
            /\ frame' = [frame EXCEPT ![t] = [NoFrame EXCEPT !.now_ts = clock]]
            /\ UNCHANGED nrefresh
       ELSE StartRefresh(t, clock)
    /\ UNCHANGED <<CACHE, wrote, clock, req, nreq, limits, fn, arg, res>>

\* ... and CACHE["events"]: return, or go on to scrape
CheckEvents(t) ==
    /\ pc[t] = "chk_events"
    /\ IF CACHE.events # << >>
       THEN /\ pc' = [pc EXCEPT ![t] = "read"]
            /\ UNCHANGED <<frame, nrefresh>>
       ELSE StartRefresh(t, frame[t].now_ts)
    /\ UNCHANGED <<CACHE, wrote, clock, req, nreq, limits, fn, arg, res>>

\* one pass of "for src in SOURCES": scrape_source(src) and the two extends
ScrapeSource(t) ==
    /\ pc[t] = "scrape"
    /\ LET i == frame[t].i IN
       \E page \in Pages(i) :
          LET r == scrape_source(SOURCES[i], Fetch(i, page, Outage(frame[t].net, i)), clock)
          IN  frame' = [frame EXCEPT ![t].all_events = @ \o r.events,
                                     ![t].all_errors = @ \o r.errors,
                                     ![t].i = i + 1]
    /\ pc' = [pc EXCEPT ![t] = IF frame[t].i = Len(SOURCES) THEN "filter" ELSE "scrape"]
    /\ UNCHANGED <<CACHE, wrote, clock, req, nreq, nrefresh, limits, fn, arg, res>>

\* now_dt = now_local(), the upcoming loop and the sort
Filter(t) ==
    /\ pc[t] = "filter"
    /\ LET u == Upcoming(frame[t].all_events, clock)
       IN  IF u.raised
           THEN /\ pc' = [pc EXCEPT ![t] = "refresh_raised"]
                /\ frame' = [frame EXCEPT ![t].now_dt = clock]
           ELSE /\ pc' = [pc EXCEPT ![t] = "w_ts"]
                /\ frame' = [frame EXCEPT ![t].now_dt = clock,
                                           ![t].upcoming = SortByStart(u.events)]
    /\ UNCHANGED <<CACHE, wrote, clock, req, nreq, nrefresh, limits, fn, arg, res>>

\* CACHE["ts"] = now_ts
WriteTs(t) ==
    /\ pc[t] = "w_ts"
    /\ CACHE' = [CACHE EXCEPT !.ts = frame[t].now_ts]
    /\ wrote' = [wrote EXCEPT !.ts = frame[t].rid]
    /\ pc' = [pc EXCEPT ![t] = "w_events"]
    /\ UNCHANGED <<clock, req, frame, nreq, nrefresh, limits, fn, arg, res>>

\* CACHE["events"] = upcoming
WriteEvents(t) ==
    /\ pc[t] = "w_events"
    /\ CACHE' = [CACHE EXCEPT !.events = frame[t].upcoming]
    /\ wrote' = [wrote EXCEPT !.events = frame[t].rid, !.ref = frame[t].now_dt]
    /\ pc' = [pc EXCEPT ![t] = "w_errors"]
    /\ UNCHANGED <<clock, req, frame, nreq, nrefresh, limits, fn, arg, res>>

\* CACHE["errors"] = all_errors, and the return
WriteErrors(t) ==
    /\ pc[t] = "w_errors"
    /\ CACHE' = [CACHE EXCEPT !.errors = frame[t].all_errors]
    /\ wrote' = [wrote EXCEPT !.errors = frame[t].rid]
    /\ pc' = [pc EXCEPT ![t] = "read"]
    /\ UNCHANGED <<clock, req, frame, nreq, nrefresh, limits, fn, arg, res>>

\* cache_age_seconds of the responses
CacheAge(ts, now) == IF ts # 0 THEN now - ts ELSE -1

\* /events: the three reads of its response, in the order of the dict literal
EventsReadEvents(t) ==
    /\ pc[t] = "read" /\ req[t].ep = "/events" /\ req[t].step = 0
    /\ req' = [req EXCEPT ![t].events = CACHE.events, ![t].step = 1,
                          ![t].by = Append(@, wrote.events)]
    /\ UNCHANGED <<CACHE, wrote, clock, pc, frame, nreq, nrefresh, limits, fn, arg, res>>

EventsReadErrors(t) ==
    /\ pc[t] = "read" /\ req[t].ep = "/events" /\ req[t].step = 1
    /\ req' = [req EXCEPT ![t].errors = CACHE.errors, ![t].step = 2,
                          ![t].by = Append(@, wrote.errors)]
    /\ UNCHANGED <<CACHE, wrote, clock, pc, frame, nreq, nrefresh, limits, fn, arg, res>>

EventsReadTs(t) ==
    /\ pc[t] = "read" /\ req[t].ep = "/events" /\ req[t].step = 2
    /\ req' = [req EXCEPT ![t].ts = CACHE.ts, ![t].step = 3,
                          ![t].by = Append(@, wrote.ts),
                          ![t].status = 200,
                          ![t].body = << Len(req[t].events), Len(req[t].errors),
                                         CacheAge(CACHE.ts, clock) >>]
    /\ pc' = [pc EXCEPT ![t] = "done"]
    /\ UNCHANGED <<CACHE, wrote, clock, frame, nreq, nrefresh, limits, fn, arg, res>>

\* /health: cached, cache_age_seconds, event_count, errors_count
HealthReadCached(t) ==
    /\ pc[t] = "read" /\ req[t].ep = "/health" /\ req[t].step = 0
    /\ req' = [req EXCEPT ![t].body = << CACHE.events # << >> >>, ![t].step = 1,
                          ![t].by = Append(@, wrote.events)]
    /\ UNCHANGED <<CACHE, wrote, clock, pc, frame, nreq, nrefresh, limits, fn, arg, res>>

HealthReadTs(t) ==
    /\ pc[t] = "read" /\ req[t].ep = "/health" /\ req[t].step = 1
    /\ req' = [req EXCEPT ![t].ts = CACHE.ts, ![t].step = 2,
                          ![t].body = Append(@, CacheAge(CACHE.ts, clock)),
                          ![t].by = Append(@, wrote.ts)]
    /\ UNCHANGED <<CACHE, wrote, clock, pc, frame, nreq, nrefresh, limits, fn, arg, res>>

HealthReadCount(t) ==
    /\ pc[t] = "read" /\ req[t].ep = "/health" /\ req[t].step = 2
    /\ req' = [req EXCEPT ![t].body = Append(@, Len(CACHE.events)), ![t].step = 3,
                          ![t].by = Append(@, wrote.events)]
    /\ UNCHANGED <<CACHE, wrote, clock, pc, frame, nreq, nrefresh, limits, fn, arg, res>>

HealthReadErrors(t) ==
    /\ pc[t] = "read" /\ req[t].ep = "/health" /\ req[t].step = 3
    /\ req' = [req EXCEPT ![t].body = Append(@, Len(CACHE.errors)), ![t].step = 4,
                          ![t].by = Append(@, wrote.errors),
                          ![t].status = 200]
    /\ pc' = [pc EXCEPT ![t] = "done"]
    /\ UNCHANGED <<CACHE, wrote, clock, frame, nreq, nrefresh, limits, fn, arg, res>>

\* handle_chat after the refresh: the message test and the answer
ChatAnswer(t) ==
    /\ pc[t] = "read" /\ req[t].ep = "/chat"
    /\ LET msg == req[t].msg
           a == IF msg = "__WELCOME__" THEN welcome_message(CACHE.events, clock)
                ELSE answer_query(msg, CACHE.events, clock)
       IN  IF msg = ""
           THEN /\ req' = [req EXCEPT ![t].status = 400,
                                      ![t].body = << "Message is required" >>]
                /\ pc' = [pc EXCEPT ![t] = "done"]
           ELSE IF a.raised
           THEN /\ req' = [req EXCEPT ![t].events = CACHE.events]
                /\ pc' = [pc EXCEPT ![t] = "chat_raised"]
           ELSE /\ req' = [req EXCEPT ![t].events = CACHE.events,
                                      ![t].by = << wrote.events >>,
                                      ![t].status = 200, ![t].body = a.message]
                /\ pc' = [pc EXCEPT ![t] = "done"]
    /\ UNCHANGED <<CACHE, wrote, clock, frame, nreq, nrefresh, limits, fn, arg, res>>

\* the response is sent (200, 400, or 500 for an exception) and the thread is free
Finish(t) ==
    /\ pc[t] \in {"done", "refresh_raised", "chat_raised"}
    /\ pc' = [pc EXCEPT ![t] = "idle"]
    /\ req' = [req EXCEPT ![t] = NoReq]
    /\ frame' = [frame EXCEPT ![t] = NoFrame]
    /\ UNCHANGED <<CACHE, wrote, clock, nreq, nrefresh, limits, fn, arg, res>>

\* time passes
Tick ==
    /\ clock < CACHE_TTL_SECONDS + limits.ticks * (3 * 3600)
    /\ clock' = clock + 3 * 3600
    /\ UNCHANGED <<CACHE, wrote, pc, req, frame, nreq, nrefresh, limits, fn, arg, res>>

Next ==
    \/ \E t \in Threads :
          \/ Request(t)
          \/ Enter(t)
          \/ CheckEvents(t)
          \/ ScrapeSource(t)
          \/ Filter(t)
          \/ WriteTs(t)
          \/ WriteEvents(t)
          \/ WriteErrors(t)
          \/ EventsReadEvents(t)
          \/ EventsReadErrors(t)
          \/ EventsReadTs(t)
          \/ HealthReadCached(t)
          \/ HealthReadTs(t)
          \/ HealthReadCount(t)
          \/ HealthReadErrors(t)
          \/ ChatAnswer(t)
          \/ Finish(t)
    \/ Tick

Spec == Init /\ [][Next]_vars

SpecThreaded == InitThreaded /\ [][Next]_vars

-----------------------------------------------------------------------------
(* Function-level specifications: the input is drawn by the initial         *)
(* predicate, the action applies the function.  No request is served.       *)

NoServer ==
    /\ InitCache
    /\ limits = [threads |-> {}, requests |-> 0, ticks |-> 0]

ServerIdle == UNCHANGED <<CACHE, wrote, clock, pc, req, frame, nreq, nrefresh, limits>>

\* sequences over S of length at most n
SeqUpTo(S, n) == UNION {[1..k -> S] : k \in 0..n}

\* an event as the cache holds it
Ev(title, t) ==
    normalize_event(title, Naive(t), "https://www.theadelphia.com/e/1", "The Adelphia",
                    "music", IsoText(t))

(* weekend_range and select_weekend *)

\* a listing with one event every 4 hours from 1970-01-01T00:00:00 on
Every4h(n) == [i \in 1..n |-> Ev("Gig", (i - 1) * 4 * 3600)]

InitWeekend ==
    /\ NoServer
    /\ fn = "select_weekend"
    /\ \E day \in 0..13 : \E h \in {0, 12, 23} : \E n \in {0, 20, 6 * 18} :
          arg = [base |-> day * 86400 + h * 3600 + 59 * 60 + 59, events |-> Every4h(n)]
    /\ res = << >>

SelectWeekend ==
    /\ fn = "select_weekend"
    /\ fn' = "select_weekend_done"
    /\ res' = [range |-> weekend_range(arg.base),
               picks |-> select_weekend(arg.events, arg.base)]
    /\ UNCHANGED arg
    /\ ServerIdle

SpecWeekend == InitWeekend /\ [][SelectWeekend]_vars

(* safe_parse_date *)

DateTexts ==
    {PartialText(0, mo, d) : mo \in 1..12, d \in {1, 15, 28}}
        \cup {PartialText(1971, 3, 1), PartialText(0, 2, 30), PartialText(0, 5, 0),
              IsoText(86400), JunkText, PlainText, EmptyText, NullText}

\* reference times in 1970 and 1971
DateNows ==
    {ToSeconds([y |-> y, mo |-> mo, d |-> d, h |-> 9, mi |-> 30, s |-> 0]) :
        y \in {1970, 1971}, mo \in {1, 6, 12}, d \in {1, 20}}

InitDate ==
    /\ NoServer
    /\ fn = "safe_parse_date"
    /\ \E text \in DateTexts : \E now \in DateNows : arg = [text |-> text, now |-> now]
    /\ res = << >>

ParseDate ==
    /\ fn = "safe_parse_date"
    /\ fn' = "safe_parse_date_done"
    /\ res' = safe_parse_date(arg.text, arg.now)
    /\ UNCHANGED arg
    /\ ServerIdle

SpecDate == InitDate /\ [][ParseDate]_vars

(* parse_jsonld_events *)

NodePool ==
    {[dict |-> TRUE, atType |-> ty, type |-> << >>, name |-> name, startDate |-> sd, url |-> url] :
        ty \in {<< "Event" >>, << "Place" >>},
        name \in {"", "Gig"},
        sd \in {IsoText(20 * 3600), JunkText, EmptyText},
        url \in {"", "https://www.theadelphia.com/e/1"}}
    \cup {[dict |-> TRUE, atType |-> << >>, type |-> << "Thing", "event" >>, name |-> "Jam",
           startDate |-> IsoTzText(20 * 3600, 3600), url |-> "https://www.theadelphia.com/e/2"],
          [dict |-> FALSE, atType |-> << >>, type |-> << >>, name |-> "",
           startDate |-> NullText, url |-> ""]}

Documents ==
    {[shape |-> sh, nodes |-> ns] : sh \in {"list", "graph"}, ns \in SeqUpTo(NodePool, 2)}
    \cup {[shape |-> "object", nodes |-> << n >>] : n \in NodePool}
    \cup {[shape |-> sh, nodes |-> << >>] : sh \in {"blank", "invalid", "scalar"}}

InitJsonLd ==
    /\ NoServer
    /\ fn = "parse_jsonld_events"
    /\ \E doc \in Documents : arg = [scripts |-> << doc >>, blocks |-> << >>]
    /\ res = << >>

ParseJsonLd ==
    /\ fn = "parse_jsonld_events"
    /\ fn' = "parse_jsonld_events_done"
    /\ res' = parse_jsonld_events(arg, "The Adelphia", "music", CACHE_TTL_SECONDS)
    /\ UNCHANGED arg
    /\ ServerIdle

SpecJsonLd == InitJsonLd /\ [][ParseJsonLd]_vars

(* the de-duplication of scrape_source and parse_basic_event_links *)

\* events of one source: two with equal fields but for date_text, one whose title
\* and url hold the key's separator, and others
DedupePool ==
    LET E(title, start, url, text) ==
            [title |-> title, start |-> start, date_text |-> text, url |-> url,
             source |-> "The Adelphia", category |-> "music"]
    IN  { E("Gig", IsoText(20 * 3600), "u", IsoText(20 * 3600)),
          E("Gig", IsoText(20 * 3600), "u", PartialText(0, 1, 1)),
          E("Gig", IsoText(44 * 3600), "u", IsoText(44 * 3600)),
          E("Gig", NullText, Str(NullText) \o "|u", JunkText),
          E("Gig|" \o Str(NullText), NullText, "u", EmptyText) }

InitDedupe ==
    /\ NoServer
    /\ fn = "dedupe"
    /\ arg \in SeqUpTo(DedupePool, MaxLen)
    /\ res = << >>

Dedupe ==
    /\ fn = "dedupe"
    /\ fn' = "dedupe_once"
    /\ res' = << dedupe(arg) >>
    /\ UNCHANGED arg
    /\ ServerIdle

DedupeAgain ==
    /\ fn = "dedupe_once"
    /\ fn' = "dedupe_twice"
    /\ res' = Append(res, dedupe(res[1]))
    /\ UNCHANGED arg
    /\ ServerIdle

NextDedupe == Dedupe \/ DedupeAgain

SpecDedupe == InitDedupe /\ [][NextDedupe]_vars

-----------------------------------------------------------------------------
(* The claims *)

InFetch(t) == pc[t] = "scrape"
Refreshed == wrote.errors # 0

TodayPrompt ==
    << "I'm not seeing strong today items yet from the sources - want this weekend or music?" >>

\* C1 as stated: once a refresh has completed, a call with force=False made while
\* the cache age is below the TTL fetches nothing and leaves CACHE alone.
C1_NoOpWheneverYoung ==
    [][\A t \in Threads :
          (pc[t] = "chk_events" /\ pc'[t] # "chk_events" /\ Refreshed)
              => (pc'[t] = "read" /\ CACHE' = CACHE /\ nrefresh' = nrefresh)]_vars

\* C1 (amended): a call with force=False goes on to fetch exactly when the age
\* now_ts - CACHE["ts"] is at least 6 hours or CACHE["events"] is empty; when the
\* age is below 6 hours and CACHE["events"] is non-empty it returns with no fetch
\* and with ts, events and errors unchanged.
C1_NoOpWhenYoungAndNonEmpty ==
    [][\A t \in Threads :
          /\ (pc[t] = "enter" /\ pc'[t] # "enter")
                => /\ CACHE' = CACHE
                   /\ (clock - CACHE.ts >= 21600) => pc'[t] = "scrape" /\ nrefresh' = nrefresh + 1
                   /\ (clock - CACHE.ts < 21600) => pc'[t] = "chk_events" /\ nrefresh' = nrefresh
          /\ (pc[t] = "chk_events" /\ pc'[t] # "chk_events")
                => /\ CACHE' = CACHE
                   /\ (CACHE.events = << >>) => pc'[t] = "scrape" /\ nrefresh' = nrefresh + 1
                   /\ (CACHE.events # << >>) => pc'[t] = "read" /\ nrefresh' = nrefresh]_vars

\* a call returned without a refresh from a young, non-empty cache that an
\* earlier refresh filled
C1_Witness ==
    \E t \in Threads :
        /\ pc[t] = "read" /\ frame[t].rid = 0
        /\ Refreshed /\ CACHE.events # << >>
        /\ frame[t].now_ts - CACHE.ts < 21600 /\ frame[t].now_ts > CACHE.ts

\* the tags of the refreshes whose values a finished reader's response holds
SeenBy(t) == {req[t].by[i] : i \in 1..Len(req[t].by)}

\* C2 as stated: the fields of CACHE a reader puts in one response (/events:
\* events, errors, ts; /health: events, ts, events, errors) were all stored by
\* the same refresh (0 = the initial, empty cache).
C2_ReaderSeesOneSnapshot ==
    \A t \in Threads :
        (pc[t] = "done" /\ req[t].ep \in {"/events", "/health"})
            => Cardinality(SeenBy(t)) = 1

\* C3 as stated: no two threads are in the fetch phase of a refresh at once.
C3_OneRefreshAtATime == Cardinality({t \in Threads : InFetch(t)}) <= 1

\* C4 as stated: no refresh ends in an exception, whatever was fetched and
\* whatever start texts the events carry.
C4_RefreshNeverRaises == \A t \in Threads : pc[t] # "refresh_raised"

\* the refresh of thread t fetched every url and every fetch failed
AllFetchesFailed(t) ==
    /\ frame[t].rid # 0 /\ frame[t].net = "down"
    /\ pc[t] \in {"w_ts", "w_events", "w_errors", "read", "done"}

AsksToday(t) == req[t].ep = "/chat" /\ "today" \in Keywords(req[t].msg)

\* C5 as stated: when every fetch fails the refresh stores events = [] and an
\* errors list of length 3, and a "today" query answers with the empty-state
\* prompt.
C5_AllFailThreeErrors ==
    \A t \in Threads :
        AllFetchesFailed(t)
            => /\ frame[t].upcoming = << >>
               /\ Len(frame[t].all_errors) = 3
               /\ (pc[t] = "done" /\ AsksToday(t))
                     => (req[t].status = 200 /\ req[t].body = TodayPrompt)

\* C5 (amended): when every fetch fails the refresh stores events = [] and an
\* errors list of length 7, one entry per failed url of the three sources, and
\* a "today" query on that snapshot answers with the non-empty empty-state
\* prompt and does not raise.
C5_AllFailSevenErrors ==
    \A t \in Threads :
        AllFetchesFailed(t)
            => /\ frame[t].upcoming = << >>
               /\ Len(frame[t].all_errors) = 7
               /\ \A i \in 1..Len(SOURCES) : \A j \in 1..Len(SOURCES[i].urls) :
                     \E n \in 1..Len(frame[t].all_errors) :
                        frame[t].all_errors[n] =
                            SOURCES[i].name \o " (" \o SOURCES[i].urls[j] \o "): timed out"
               /\ pc[t] \in {"read", "done"}
                     => (CACHE.events = << >> /\ CACHE.errors = frame[t].all_errors)
               /\ (pc[t] = "done" /\ AsksToday(t))
                     => (req[t].status = 200 /\ req[t].body = TodayPrompt
                            /\ req[t].body # << >> /\ req[t].events = << >>)

\* a "today" query was answered from the snapshot of a refresh whose fetches all failed
C5_Witness ==
    \E t \in Threads : AllFetchesFailed(t) /\ pc[t] = "done" /\ AsksToday(t)

\* C6: every event of CACHE["events"] has a start that parses to a datetime
\* not earlier than 6 hours before the now_dt of the refresh that stored the
\* list; an event with no start is never in the cache.
C6_CachedEventsNotPast ==
    \A i \in 1..Len(CACHE.events) :
        /\ CACHE.events[i].start.k = "iso"
        /\ CACHE.events[i].start.t >= wrote.ref - 6 * 3600

\* the cache holds an event that began before the refresh did, inside the grace
\* window, stored by a refresh that had fetched an event with no start
C6_Witness ==
    /\ Refreshed
    /\ \E i \in 1..Len(CACHE.events) : CACHE.events[i].start.t < wrote.ref
    /\ \E t \in Threads :
          /\ pc[t] = "read" /\ frame[t].rid = wrote.events
          /\ \E n \in 1..Len(frame[t].all_events) : frame[t].all_events[n].start.k = "null"

(* weekend_range, select_weekend *)

InWindow(e, lo, hi) == e.start.k = "iso" /\ lo <= e.start.t /\ e.start.t <= hi

\* C7 as stated: the window is the upcoming Saturday 00:00:00 to the Sunday
\* after it 23:59:59; on a Saturday or a Sunday it is the weekend holding the
\* reference day; select_weekend returns the cached events that start in the
\* window, in cache order, at most 8.
C7_WeekendWindow ==
    fn = "select_weekend_done" =>
        LET sat == res.range[1]
            sun == res.range[2]
        IN  /\ Weekday(sat) = 5 /\ sat % 86400 = 0
            /\ sun = sat + 86400 + 23 * 3600 + 59 * 60 + 59
            /\ Weekday(arg.base) \in {5, 6} => (sat <= arg.base /\ arg.base <= sun)
            /\ Weekday(arg.base) \notin {5, 6} => (arg.base < sat /\ sat < arg.base + 7 * 86400)
            /\ ~res.picks.raised
            /\ res.picks.events =
                  Take(SelectSeq(arg.events, LAMBDA e : InWindow(e, sat, sun)), 8)

(* safe_parse_date *)

Yearless(text) == text.k = "partial" /\ text.y = 0 /\ text.mo # 0 /\ text.d # 0

\* the date of a year-less text in year y, at the reference time of day
PlacedIn(text, y, now) ==
    ToSeconds([y |-> y, mo |-> text.mo, d |-> text.d, h |-> FromSeconds(now).h,
               mi |-> FromSeconds(now).mi, s |-> FromSeconds(now).s])

\* C8 as stated: a year-less date that, in the reference year, falls before
\* referenceNow resolves to the same month and day of the following year; the
\* result is never before referenceNow and never more than 2 years after it.
C8_YearlessRollsForward ==
    (fn = "safe_parse_date_done" /\ Yearless(arg.text) /\ res.k # "none") =>
        LET y == YearOf(arg.now)
        IN  /\ res.t >= arg.now
            /\ res.t <= PlacedIn([mo |-> FromSeconds(arg.now).mo, d |-> 1], y + 2, arg.now)
                            + 31 * 86400
            /\ PlacedIn(arg.text, y, arg.now) < arg.now
                  => res.t = PlacedIn(arg.text, y + 1, arg.now)

(* parse_jsonld_events *)

ResolvableStart(node) == node.startDate.k \in {"iso", "isotz", "partial"}

EventTyped(node) ==
    /\ node.dict
    /\ \E ty \in Range(node.atType) \cup Range(node.type) : ty \in {"Event", "event", "EVENT"}

ValidNodes(doc) ==
    SelectSeq(IF doc.shape \in {"list", "graph", "object"} THEN doc.nodes ELSE << >>,
              LAMBDA n : EventTyped(n) /\ n.name # "" /\ ResolvableStart(n))

\* C9 as stated: the extraction returns one event per Event-typed node with a
\* non-empty name and a resolvable startDate, in document order, whether or
\* not the node has a url; every other node yields none.
C9_OnePerValidNode ==
    fn = "parse_jsonld_events_done" =>
        LET valid == ValidNodes(arg.scripts[1])
        IN  /\ Len(res) = Len(valid)
            /\ \A n \in 1..Len(res) :
                  res[n].title = valid[n].name /\ Truthy(res[n].start)

(* dedupe *)

Keys(events) == {event_key(events[i]) : i \in 1..Len(events)}

\* C10: dedupe(dedupe(x)) = dedupe(x); dedupe(x) holds exactly one event for
\* each key source|title|start|url of x, and it is the last event of x with
\* that key.
C10_DedupeIdempotentLastWins ==
    /\ fn = "dedupe_twice" => res[2] = res[1]
    /\ fn \in {"dedupe_once", "dedupe_twice"} =>
          LET out == res[1]
          IN  /\ Keys(out) = Keys(arg)
              /\ Cardinality(Keys(out)) = Len(out)
              /\ \A n \in 1..Len(out) : \E j \in 1..Len(arg) :
                    /\ out[n] = arg[j]
                    /\ \A l \in (j + 1)..Len(arg) : event_key(arg[l]) # event_key(out[n])

\* dedupe ran twice on a list in which a key occurs twice, with different events
C10_Witness ==
    /\ fn = "dedupe_twice"
    /\ Len(res[1]) < Len(arg) /\ Len(res[1]) > 1
    /\ \E i, j \in 1..Len(arg) :
          i < j /\ event_key(arg[i]) = event_key(arg[j]) /\ arg[i] # arg[j]

=============================================================================
